---- MODULE Spec2Model ----
(***************************************************************************)
(* GPU admission queue (services/queue.py) and exclusive generation-model  *)
(* residency manager (services/generator.py) of the AI image server.       *)
(*                                                                         *)
(* Capability oracle (services/capabilities.py) and the preloaded upscaler  *)
(* and captioner (services/upscaler.py, services/captioner.py, main.py).   *)
(*                                                                         *)
(* Four state machines share the module:                                   *)
(*   Spec    : GPUQueue, its single worker and its submitters              *)
(*   GenSpec : Generator, its lock, executor threads and callers           *)
(*   CapSpec : get_capabilities, has_capability and require_* applied to   *)
(*             every host (device, memory) and every request               *)
(*   SvcSpec : the startup preload of Upscaler and Captioner on every      *)
(*             host, followed by upscale and caption calls                 *)
(***************************************************************************)
EXTENDS Integers, Sequences, FiniteSets, TLC

\* ------------------------------------------------------------------ bounds
NumTasks == 3
NumCallers == 2
NumVariants == 2
MaxMem == 13      \* largest GPU memory considered, in GB
MemPerGB == 4     \* memory values are multiples of 1/MemPerGB GB

Tasks == 1..NumTasks
Callers == 1..NumCallers

\* ------------------------------------------------------------------ state
VARIABLES
    queue,       \* GPUQueue._queue: sequence of task ids, each paired with its own future
    worker,      \* GPUQueue._worker_task: "none" | "get" | "run" | "cancelled" | "crashed"
    current,     \* the (task, future) pair the worker holds between get() and task_done(); 0 = none
    body,        \* per task: state of the coroutine task(): idle | running | returned | raised | cancelled
    future,      \* per task: the asyncio.Future created by submit: [st, val]
    waiter,      \* per task: the submit() call awaiting the future: [st, val]
    stopCalled,  \* stop() has been called
    invoked,     \* history: number of times the worker called task()
    delivered,   \* history: outcomes successfully set on each future, in order
    enqOrder,    \* history: tasks in the order submit() put them on the queue
    startOrder,  \* history: tasks in the order the worker began their bodies
    cleaned,     \* history: the tasks after which the worker's finally block ran its cache clean-up
    lastCleanup, \* history: how the last cache clean-up went: "none" | "ok" | "swallowed"
    curModel,    \* Generator._current_model: a ModelType or "None"
    pipe,        \* Generator._pipe: a pipeline object [v, id] or NoHandle (None)
    lock,        \* Generator._lock: the caller holding it, 0 = free
    gpc,         \* per caller: position inside generate()/_ensure_model()
    req,         \* per caller: the model argument of its generate() call
    tmp,         \* per caller: the pipeline object from_pretrained has built, not yet assigned
    iref,        \* per caller: the pipeline object its _generate_sync thread is calling
    entryModel,  \* history: _current_model seen by _ensure_model under the lock
    unloadedBy,  \* history: this call's _unload_current has completed
    retModel,    \* history: get_loaded_model() at the moment _ensure_model returned
    hw,          \* the host: [device, mem] as get_device() and get_gpu_memory() report it
    capOut,      \* the last call into capabilities.py: [op, kind, kw, out]
    phase,       \* position of the startup part of main.lifespan
    upModels,    \* Upscaler._models: the scales that have a model
    capLoaded,   \* Captioner._loaded_models
    blip2,       \* Captioner._blip2_model is set
    florence,    \* Captioner._florence_variant: a variant or "None"
    call,        \* the upscale()/caption() call being served: [op, arg, st, ran]
    admit,       \* per task: where the route handler of its request stands
    served       \* history: per operation, the arguments of the calls that returned a result

kvars == <<cleaned, lastCleanup>>
qvars == <<queue, worker, current, body, future, waiter, stopCalled,
           invoked, delivered, enqOrder, startOrder, cleaned, lastCleanup>>
gvars == <<curModel, pipe, lock, gpc, req, tmp, iref, entryModel, unloadedBy, retModel>>
cvars == <<hw, capOut>>
svars == <<phase, upModels, capLoaded, blip2, florence, call, served>>
rvars == <<admit>>
vars == <<queue, worker, current, body, future, waiter, stopCalled,
          invoked, delivered, enqOrder, startOrder, cleaned, lastCleanup,
          curModel, pipe, lock, gpc, req, tmp, iref, entryModel, unloadedBy, retModel,
          hw, capOut, phase, upModels, capLoaded, blip2, florence, call, served, admit>>

\* ------------------------------------------------------------ GPUQueue
\* A future that has not been created yet / a submit call that has not been made yet.
NoFuture == [st |-> "none", val |-> 0]
NoWaiter == [st |-> "idle", val |-> 0]

\* asyncio.Future.set_result / set_exception: only a pending future accepts an outcome;
\* on any other state the call raises InvalidStateError (an Exception) and changes nothing.
FutureAccepts(f) == f.st = "pending"

QueueInit ==
    /\ queue = <<>>
    /\ worker = "none"
    /\ current = 0
    /\ body = [t \in Tasks |-> "idle"]
    /\ future = [t \in Tasks |-> NoFuture]
    /\ waiter = [t \in Tasks |-> NoWaiter]
    /\ stopCalled = FALSE
    /\ invoked = [t \in Tasks |-> 0]
    /\ delivered = [t \in Tasks |-> <<>>]
    /\ enqOrder = <<>>
    /\ startOrder = <<>>
    /\ cleaned = {}
    /\ lastCleanup = "none"

\* start(): create the worker task; it runs up to `await self._queue.get()`.
Start ==
    /\ worker = "none"
    /\ worker' = "get"
    /\ UNCHANGED <<queue, current, body, future, waiter, stopCalled,
                   invoked, delivered, enqOrder, startOrder>>
    /\ UNCHANGED <<gvars, cvars, svars, rvars, kvars>>

\* The body of submit(task) up to `await future`, on the queue's own state.
Enqueue(t) ==
    /\ waiter[t].st = "idle"
    /\ future' = [future EXCEPT ![t] = [st |-> "pending", val |-> 0]]
    /\ queue' = Append(queue, t)
    /\ enqOrder' = Append(enqOrder, t)
    /\ waiter' = [waiter EXCEPT ![t] = [st |-> "waiting", val |-> 0]]
    /\ UNCHANGED <<worker, current, body, stopCalled, invoked, delivered, startOrder>>
    /\ UNCHANGED kvars

\* submit(task): create the future, put (task, future) on the unbounded queue
\* (put never suspends), then suspend on `await future`.
Submit(t) ==
    /\ Enqueue(t)
    /\ UNCHANGED <<gvars, cvars, svars, rvars>>

\* Mutant of Get: the queue hands out its newest item (as asyncio.LifoQueue would).
GetNewest(q) == [item |-> q[Len(q)], rest |-> SubSeq(q, 1, Len(q) - 1)]

\* self._queue is an asyncio.Queue (FIFO): get() removes and returns the oldest item.
Get(q) == [item |-> Head(q), rest |-> Tail(q)]

\* The worker takes the next item of the queue and calls task(): the body runs.
TakeNext ==
    /\ current' = Get(queue).item
    /\ queue' = Get(queue).rest
    /\ worker' = "run"
    /\ invoked' = [invoked EXCEPT ![Get(queue).item] = @ + 1]
    /\ startOrder' = Append(startOrder, Get(queue).item)

\* Mutant of WorkerGet: the body is started without being awaited (as with
\* asyncio.create_task(task())), so the worker goes straight back to get().
WorkerGetDetached ==
    /\ worker = "get"
    /\ queue # <<>>
    /\ current' = Get(queue).item
    /\ queue' = Get(queue).rest
    /\ worker' = "get"
    /\ invoked' = [invoked EXCEPT ![Get(queue).item] = @ + 1]
    /\ startOrder' = Append(startOrder, Get(queue).item)
    /\ body' = [body EXCEPT ![Get(queue).item] = "running"]
    /\ UNCHANGED <<future, waiter, stopCalled, delivered, enqOrder>>
    /\ UNCHANGED <<gvars, cvars, svars, rvars, kvars>>

\* `await self._queue.get()` resumes once the queue holds an item.
WorkerGet ==
    /\ worker = "get"
    /\ queue # <<>>
    /\ TakeNext
    /\ body' = [body EXCEPT ![Get(queue).item] = "running"]
    /\ UNCHANGED <<future, waiter, stopCalled, delivered, enqOrder>>
    /\ UNCHANGED <<gvars, cvars, svars, rvars, kvars>>

\* The tail of the worker's finally block after task t: the cache clean-up inside
\* `try: ... except Exception: pass` either succeeds or raises and is swallowed.
Cleanup(t) ==
    /\ cleaned' = cleaned \cup {t}
    /\ \E went \in {"ok", "swallowed"} : lastCleanup' = went

\* Mutant of WorkerFinish: a task whose body raised is put back on the queue to be
\* tried again, its future left pending.
WorkerFinishRequeue(how, kind) ==
    /\ worker = "run"
    /\ body[current] = "running"
    /\ worker' = "get"
    /\ current' = 0
    /\ IF how = "raised"
       THEN /\ queue' = Append(queue, current)
            /\ body' = [body EXCEPT ![current] = "idle"]
            /\ UNCHANGED <<future, delivered>>
       ELSE /\ body' = [body EXCEPT ![current] = how]
            /\ future' = [future EXCEPT ![current] =
                            IF FutureAccepts(@) THEN [st |-> kind, val |-> current] ELSE @]
            /\ delivered' = [delivered EXCEPT ![current] =
                            IF FutureAccepts(future[current]) THEN Append(@, kind) ELSE @]
            /\ UNCHANGED queue
    /\ UNCHANGED <<invoked, startOrder, waiter, stopCalled, enqOrder>>
    /\ UNCHANGED <<gvars, cvars, svars, rvars, kvars>>

\* Mutant of WorkerFinish: the cache clean-up follows set_result inside the try block
\* instead of standing in the finally block.
WorkerFinishCleanOnSuccess(how, kind) ==
    /\ worker = "run"
    /\ body[current] = "running"
    /\ IF FutureAccepts(future[current])
       THEN /\ future' = [future EXCEPT ![current] = [st |-> kind, val |-> current]]
            /\ delivered' = [delivered EXCEPT ![current] = Append(@, kind)]
            /\ IF queue # <<>>
               THEN /\ TakeNext
                    /\ body' = [body EXCEPT ![current] = how,
                                            ![Get(queue).item] = "running"]
               ELSE /\ worker' = "get"
                    /\ current' = 0
                    /\ body' = [body EXCEPT ![current] = how]
                    /\ UNCHANGED <<queue, invoked, startOrder>>
       ELSE /\ worker' = "crashed"
            /\ current' = 0
            /\ body' = [body EXCEPT ![current] = how]
            /\ UNCHANGED <<future, delivered, queue, invoked, startOrder>>
    /\ IF how = "returned" /\ FutureAccepts(future[current])
       THEN Cleanup(current)
       ELSE UNCHANGED kvars
    /\ UNCHANGED <<waiter, stopCalled, enqOrder>>
    /\ UNCHANGED <<gvars, cvars, svars, rvars>>

\* The body of the current task ends with `how` ("returned" or "raised"); the worker
\* sets the outcome `kind` on the task's own future, runs the finally block and loops:
\* get() does not suspend when the queue holds an item, so the next body starts in the
\* same step. The finally block (task_done and the cache clean-up) runs whatever
\* happened in the try block. If the future no longer accepts an outcome (its waiter cancelled it),
\* set_result raises InvalidStateError, `except Exception` catches it and
\* set_exception raises it again: it leaves the loop and ends the worker task.
WorkerFinish(how, kind) ==
    /\ worker = "run"
    /\ body[current] = "running"
    /\ IF FutureAccepts(future[current])
       THEN /\ future' = [future EXCEPT ![current] = [st |-> kind, val |-> current]]
            /\ delivered' = [delivered EXCEPT ![current] = Append(@, kind)]
            /\ IF queue # <<>>
               THEN /\ TakeNext
                    /\ body' = [body EXCEPT ![current] = how,
                                            ![Get(queue).item] = "running"]
               ELSE /\ worker' = "get"
                    /\ current' = 0
                    /\ body' = [body EXCEPT ![current] = how]
                    /\ UNCHANGED <<queue, invoked, startOrder>>
       ELSE /\ worker' = "crashed"
            /\ current' = 0
            /\ body' = [body EXCEPT ![current] = how]
            /\ UNCHANGED <<future, delivered, queue, invoked, startOrder>>
    /\ Cleanup(current)
    /\ UNCHANGED <<waiter, stopCalled, enqOrder>>
    /\ UNCHANGED <<gvars, cvars, svars, rvars>>

\* result = await task(); future.set_result(result)
WorkerTaskReturns == WorkerFinish("returned", "result")

\* except Exception as e: future.set_exception(e)
WorkerTaskRaises == WorkerFinish("raised", "exception")

\* `return await future` in submit(): the waiter resumes with the future's outcome.
SubmitResume(t) ==
    /\ waiter[t].st = "waiting"
    /\ future[t].st \in {"result", "exception"}
    /\ waiter' = [waiter EXCEPT ![t] =
                    [st |-> IF future[t].st = "result" THEN "returned" ELSE "raised",
                     val |-> future[t].val]]
    /\ UNCHANGED <<queue, worker, current, body, future, stopCalled,
                   invoked, delivered, enqOrder, startOrder>>
    /\ UNCHANGED <<gvars, cvars, svars, rvars, kvars>>

\* The caller of submit() is cancelled while suspended on `await future`: asyncio cancels
\* the awaited future if it is still pending, and CancelledError leaves submit().
\* The (task, future) pair stays where it is: in the queue, or with the worker.
Abandon(t) ==
    /\ waiter[t].st = "waiting"
    /\ waiter' = [waiter EXCEPT ![t] = [st |-> "abandoned", val |-> 0]]
    /\ future' = [future EXCEPT ![t] =
                    IF @.st = "pending" THEN [st |-> "cancelled", val |-> 0] ELSE @]
    /\ UNCHANGED <<queue, worker, current, body, stopCalled,
                   invoked, delivered, enqOrder, startOrder>>
    /\ UNCHANGED <<gvars, cvars, svars, rvars, kvars>>

\* stop(): cancel the worker task and await it. CancelledError is not an Exception:
\* raised at `await self._queue.get()` or inside `await task()` it skips the except
\* clause, runs the finally block and ends the worker. No future is touched.
Stop ==
    /\ worker # "none"
    /\ ~stopCalled
    /\ stopCalled' = TRUE
    /\ worker' = IF worker \in {"get", "run"} THEN "cancelled" ELSE worker
    /\ body' = IF worker = "run" THEN [body EXCEPT ![current] = "cancelled"] ELSE body
    /\ current' = 0
    /\ IF worker = "run" THEN Cleanup(current) ELSE UNCHANGED kvars
    /\ UNCHANGED <<queue, future, waiter, invoked, delivered, enqOrder, startOrder>>
    /\ UNCHANGED <<gvars, cvars, svars, rvars>>

QueueNext ==
    \/ Start
    \/ \E t \in Tasks : Submit(t)
    \/ WorkerGet
    \/ WorkerTaskReturns
    \/ WorkerTaskRaises
    \/ \E t \in Tasks : SubmitResume(t)
    \/ \E t \in Tasks : Abandon(t)
    \/ Stop

\* ------------------------------------------------------------ Generator
\* ModelType = Literal["sdxl", "flux", "flux2", "zimage-turbo"]
ModelType == {"sdxl", "flux", "flux2", "zimage-turbo"}

\* What callers pass as `model`: the first NumVariants supported variants (their
\* loaders differ in the pipeline class only) and one value that is not supported.
VariantOrder == <<"sdxl", "flux", "flux2", "zimage-turbo">>
Requests == {VariantOrder[i] : i \in 1..NumVariants} \cup {"unknown"}

\* The call-local values of a call that is over.
CallOver(c) ==
    /\ req' = [req EXCEPT ![c] = "None"]
    /\ entryModel' = [entryModel EXCEPT ![c] = "None"]
    /\ unloadedBy' = [unloadedBy EXCEPT ![c] = FALSE]
    /\ retModel' = [retModel EXCEPT ![c] = "None"]

\* A pipeline object: the variant it was built for and its identity. NoHandle is None.
NoHandle == [v |-> "None", id |-> 0]

\* The pipeline objects some reference still keeps alive: self._pipe, the object a
\* from_pretrained call has built and not yet assigned, the object a running
\* _generate_sync call was invoked on.
LiveHandles ==
    ({pipe} \cup {tmp[c] : c \in Callers} \cup {iref[c] : c \in Callers}) \ {NoHandle}

\* Identity of a newly built object: any identity no live object has.
FreshId == CHOOSE n \in 1..(NumCallers + 2) :
              /\ \A h \in LiveHandles : h.id # n
              /\ \A k \in 1..(n - 1) : \E h \in LiveHandles : h.id = k

GenInit ==
    /\ curModel = "None"
    /\ pipe = NoHandle
    /\ lock = 0
    /\ gpc = [c \in Callers |-> "idle"]
    /\ req = [c \in Callers |-> "None"]
    /\ tmp = [c \in Callers |-> NoHandle]
    /\ iref = [c \in Callers |-> NoHandle]
    /\ entryModel = [c \in Callers |-> "None"]
    /\ unloadedBy = [c \in Callers |-> FALSE]
    /\ retModel = [c \in Callers |-> "None"]

\* The if/elif chain of _ensure_model: the loader of m is handed to the executor, or
\* ValueError is raised for a model without one.
LoadStage(m) == IF m \in ModelType THEN "load_create" ELSE "failed"

\* Mutant of EnsureStage: there is no early return for the model that is current; it
\* is unloaded and loaded again.
EnsureStageReload(m) ==
    IF curModel # "None" THEN "unload"
    ELSE LoadStage(m)

\* Mutant of EnsureStage: the branch that unloads the current model is missing.
EnsureStageNoUnload(m) ==
    IF curModel = m THEN "infer" ELSE LoadStage(m)

\* _ensure_model(m) under the lock, up to its first suspension: it returns at once
\* when m is the current model (generate() then hands _generate_sync to the executor),
\* else hands _unload_current to the executor when a model is current, else loads.
EnsureStage(m) ==
    IF curModel = m THEN "infer"
    ELSE IF curModel # "None" THEN "unload"
    ELSE LoadStage(m)

\* Mutant of MoveTo: the lock is not kept across the suspensions of _ensure_model
\* (as if the executor calls were made outside `async with self._lock`).
MoveToUnlocked(c, stage) ==
    /\ gpc' = [gpc EXCEPT ![c] = stage]
    /\ lock' = 0

\* The call of c moves to `stage`. The lock stays held while _ensure_model is suspended
\* inside `async with self._lock`; returning or raising releases it.
MoveTo(c, stage) ==
    /\ gpc' = [gpc EXCEPT ![c] = stage]
    /\ lock' = IF stage \in {"unload", "load_create"} THEN c ELSE 0

\* _ensure_model(m) takes the free lock and runs to its first suspension.
EnsureLocked(c, m) ==
    /\ MoveTo(c, EnsureStage(m))
    /\ IF EnsureStage(m) = "failed"
       THEN CallOver(c)
       ELSE /\ req' = [req EXCEPT ![c] = m]
            /\ entryModel' = [entryModel EXCEPT ![c] = curModel]
            /\ unloadedBy' = [unloadedBy EXCEPT ![c] = FALSE]
            /\ retModel' = [retModel EXCEPT ![c] =
                              IF EnsureStage(m) = "infer" THEN curModel ELSE "None"]

\* generate(model=m): `await self._ensure_model(model)`; `async with self._lock` does
\* not suspend when the lock is free.
GenCall(c, m) ==
    /\ gpc[c] \in {"idle", "done", "failed"}
    /\ IF lock = 0
       THEN EnsureLocked(c, m)
       ELSE /\ gpc' = [gpc EXCEPT ![c] = "wait_lock"]
            /\ req' = [req EXCEPT ![c] = m]
            /\ UNCHANGED <<lock, entryModel, unloadedBy, retModel>>
    /\ UNCHANGED <<curModel, pipe, tmp, iref>>
    /\ UNCHANGED <<qvars, cvars, svars, rvars>>

\* A call suspended in `async with self._lock` gets the lock once it is free.
LockAcquire(c) ==
    /\ gpc[c] = "wait_lock"
    /\ lock = 0
    /\ EnsureLocked(c, req[c])
    /\ UNCHANGED <<curModel, pipe, tmp, iref>>
    /\ UNCHANGED <<qvars, cvars, svars, rvars>>

\* Mutant of UnloadThread: a failing clean-up leaves the pipeline and the current
\* model in place (as if the cache calls came before the fields are cleared).
UnloadThreadKeepsOnError(c) ==
    /\ gpc[c] = "unload"
    /\ \/ /\ IF pipe # NoHandle
             THEN pipe' = NoHandle /\ curModel' = "None"
             ELSE UNCHANGED <<pipe, curModel>>
          /\ gpc' = [gpc EXCEPT ![c] = "unloaded"]
       \/ /\ pipe # NoHandle
          /\ UNCHANGED <<pipe, curModel>>
          /\ gpc' = [gpc EXCEPT ![c] = "unloaded_err"]
    /\ unloadedBy' = [unloadedBy EXCEPT ![c] = TRUE]
    /\ UNCHANGED <<lock, req, tmp, iref, entryModel, retModel>>
    /\ UNCHANGED <<qvars, cvars, svars, rvars>>

\* _unload_current in the executor thread: when a pipeline is held, drop self._pipe
\* and clear _current_model, then clean the accelerator cache inside
\* `try: ... except Exception: pass`. The clean-up either succeeds ("unloaded") or
\* raises and is swallowed ("unloaded_err"); the function returns normally either way.
UnloadThread(c) ==
    /\ gpc[c] = "unload"
    /\ IF pipe # NoHandle
       THEN /\ pipe' = NoHandle
            /\ curModel' = "None"
            /\ \E after \in {"unloaded", "unloaded_err"} :
                   gpc' = [gpc EXCEPT ![c] = after]
       ELSE /\ UNCHANGED <<pipe, curModel>>
            /\ gpc' = [gpc EXCEPT ![c] = "unloaded"]
    /\ unloadedBy' = [unloadedBy EXCEPT ![c] = TRUE]
    /\ UNCHANGED <<lock, req, tmp, iref, entryModel, retModel>>
    /\ UNCHANGED <<qvars, cvars, svars, rvars>>

\* _ensure_model resumes after `await loop.run_in_executor(None, self._unload_current)`
\* and goes through the if/elif chain; it cannot tell whether the clean-up raised.
AfterUnload(c) ==
    /\ gpc[c] \in {"unloaded", "unloaded_err"}
    /\ MoveTo(c, LoadStage(req[c]))
    /\ IF LoadStage(req[c]) = "failed"
       THEN CallOver(c)
       ELSE UNCHANGED <<req, entryModel, unloadedBy, retModel>>
    /\ UNCHANGED <<curModel, pipe, tmp, iref>>
    /\ UNCHANGED <<qvars, cvars, svars, rvars>>

\* _load_*: <Pipeline>.from_pretrained(...) builds the pipeline object, or raises.
LoadCreate(c) ==
    /\ gpc[c] = "load_create"
    /\ \/ /\ tmp' = [tmp EXCEPT ![c] = [v |-> req[c], id |-> FreshId]]
          /\ gpc' = [gpc EXCEPT ![c] = "load_assign"]
       \/ /\ gpc' = [gpc EXCEPT ![c] = "load_raised"]
          /\ UNCHANGED tmp
    /\ UNCHANGED <<curModel, pipe, lock, req, iref, entryModel, unloadedBy, retModel>>
    /\ UNCHANGED <<qvars, cvars, svars, rvars>>

\* _load_*: `self._pipe = ...` binds the new object; what self._pipe held is dropped.
LoadAssign(c) ==
    /\ gpc[c] = "load_assign"
    /\ pipe' = tmp[c]
    /\ tmp' = [tmp EXCEPT ![c] = NoHandle]
    /\ gpc' = [gpc EXCEPT ![c] = "load_config"]
    /\ UNCHANGED <<curModel, lock, req, iref, entryModel, unloadedBy, retModel>>
    /\ UNCHANGED <<qvars, cvars, svars, rvars>>

\* _load_*: .to(device) and enable_model_cpu_offload() succeed and _current_model is
\* set, or one of them raises and _current_model is not reached.
LoadConfigure(c) ==
    /\ gpc[c] = "load_config"
    /\ \/ /\ curModel' = req[c]
          /\ gpc' = [gpc EXCEPT ![c] = "load_ok"]
       \/ /\ gpc' = [gpc EXCEPT ![c] = "load_raised"]
          /\ UNCHANGED curModel
    /\ UNCHANGED <<pipe, lock, req, tmp, iref, entryModel, unloadedBy, retModel>>
    /\ UNCHANGED <<qvars, cvars, svars, rvars>>

\* _ensure_model resumes after the loader: the lock is released and it returns;
\* generate() hands _generate_sync to the executor.
LoadReturn(c) ==
    /\ gpc[c] = "load_ok"
    /\ MoveTo(c, "infer")
    /\ retModel' = [retModel EXCEPT ![c] = curModel]
    /\ UNCHANGED <<curModel, pipe, req, tmp, iref, entryModel, unloadedBy>>
    /\ UNCHANGED <<qvars, cvars, svars, rvars>>

\* _ensure_model resumes with the loader's exception: the lock is released and the
\* exception leaves generate().
LoadRaise(c) ==
    /\ gpc[c] = "load_raised"
    /\ MoveTo(c, "failed")
    /\ CallOver(c)
    /\ UNCHANGED <<curModel, pipe, tmp, iref>>
    /\ UNCHANGED <<qvars, cvars, svars, rvars>>

\* _generate_sync in the executor thread: `self._pipe(...)` reads self._pipe and calls
\* it; calling None raises TypeError, which leaves generate().
InferBegin(c) ==
    /\ gpc[c] = "infer"
    /\ IF pipe # NoHandle
       THEN /\ iref' = [iref EXCEPT ![c] = pipe]
            /\ gpc' = [gpc EXCEPT ![c] = "infer_run"]
            /\ entryModel' = [entryModel EXCEPT ![c] = "None"]
            /\ unloadedBy' = [unloadedBy EXCEPT ![c] = FALSE]
            /\ retModel' = [retModel EXCEPT ![c] = "None"]
            /\ UNCHANGED req
       ELSE /\ gpc' = [gpc EXCEPT ![c] = "failed"]
            /\ CallOver(c)
            /\ UNCHANGED iref
    /\ UNCHANGED <<curModel, pipe, lock, tmp>>
    /\ UNCHANGED <<qvars, cvars, svars, rvars>>

\* The pipeline call returns an image or raises; generate() resumes with the outcome.
InferEnd(c) ==
    /\ gpc[c] = "infer_run"
    /\ iref' = [iref EXCEPT ![c] = NoHandle]
    /\ \E out \in {"done", "failed"} : gpc' = [gpc EXCEPT ![c] = out]
    /\ CallOver(c)
    /\ UNCHANGED <<curModel, pipe, lock, tmp>>
    /\ UNCHANGED <<qvars, cvars, svars, rvars>>

GenNext ==
    \/ \E c \in Callers, m \in Requests : GenCall(c, m)
    \/ \E c \in Callers : LockAcquire(c)
    \/ \E c \in Callers : UnloadThread(c)
    \/ \E c \in Callers : AfterUnload(c)
    \/ \E c \in Callers : LoadCreate(c)
    \/ \E c \in Callers : LoadAssign(c)
    \/ \E c \in Callers : LoadConfigure(c)
    \/ \E c \in Callers : LoadReturn(c)
    \/ \E c \in Callers : LoadRaise(c)
    \/ \E c \in Callers : InferBegin(c)
    \/ \E c \in Callers : InferEnd(c)

\* ------------------------------------------------ Generator: cancelled calls
\* A generate() call is cancelled while it is suspended (GPUQueue.stop() cancels the
\* worker task that awaits it): CancelledError is raised at its await and leaves
\* `async with self._lock`, which releases the lock. A function that run_in_executor
\* has handed to a thread is not interrupted: the thread runs it to its end with
\* nobody awaiting it. The stage of such a thread is the stage it had, marked "x_".
Detached(stage) ==
    IF stage = "unload" THEN "x_unload"
    ELSE IF stage = "load_create" THEN "x_load_create"
    ELSE IF stage = "load_assign" THEN "x_load_assign"
    ELSE IF stage = "load_config" THEN "x_load_config"
    ELSE "cancelled"

DetachedStages == {"x_unload", "x_load_create", "x_load_assign", "x_load_config"}

\* The stages at which a call is suspended: waiting for the lock, or awaiting the
\* executor inside _ensure_model or generate.
SuspendedStages ==
    {"wait_lock", "unload", "unloaded", "unloaded_err", "load_create", "load_assign",
     "load_config", "load_ok", "load_raised", "infer", "infer_run"}

\* The call of c is cancelled. Its unload or loader thread, if one is running, goes
\* on detached; a _generate_sync thread only reads self._pipe and is not followed.
Cancel(c) ==
    /\ gpc[c] \in SuspendedStages
    /\ gpc' = [gpc EXCEPT ![c] = Detached(gpc[c])]
    /\ lock' = IF lock = c THEN 0 ELSE lock
    /\ iref' = [iref EXCEPT ![c] = NoHandle]
    /\ IF Detached(gpc[c]) = "cancelled"
       THEN CallOver(c)
       ELSE /\ entryModel' = [entryModel EXCEPT ![c] = "None"]
            /\ unloadedBy' = [unloadedBy EXCEPT ![c] = FALSE]
            /\ retModel' = [retModel EXCEPT ![c] = "None"]
            /\ UNCHANGED req
    /\ UNCHANGED <<curModel, pipe, tmp>>
    /\ UNCHANGED <<qvars, cvars, svars, rvars>>

\* _unload_current in a detached thread.
DetachedUnload(c) ==
    /\ gpc[c] = "x_unload"
    /\ IF pipe # NoHandle
       THEN pipe' = NoHandle /\ curModel' = "None"
       ELSE UNCHANGED <<pipe, curModel>>
    /\ gpc' = [gpc EXCEPT ![c] = "cancelled"]
    /\ CallOver(c)
    /\ UNCHANGED <<lock, tmp, iref>>
    /\ UNCHANGED <<qvars, cvars, svars, rvars>>

\* _load_* in a detached thread: from_pretrained builds the pipeline object, or raises.
DetachedLoadCreate(c) ==
    /\ gpc[c] = "x_load_create"
    /\ \/ /\ tmp' = [tmp EXCEPT ![c] = [v |-> req[c], id |-> FreshId]]
          /\ gpc' = [gpc EXCEPT ![c] = "x_load_assign"]
          /\ UNCHANGED <<req, entryModel, unloadedBy, retModel>>
       \/ /\ gpc' = [gpc EXCEPT ![c] = "cancelled"]
          /\ CallOver(c)
          /\ UNCHANGED tmp
    /\ UNCHANGED <<curModel, pipe, lock, iref>>
    /\ UNCHANGED <<qvars, cvars, svars, rvars>>

\* _load_* in a detached thread: `self._pipe = ...`.
DetachedLoadAssign(c) ==
    /\ gpc[c] = "x_load_assign"
    /\ pipe' = tmp[c]
    /\ tmp' = [tmp EXCEPT ![c] = NoHandle]
    /\ gpc' = [gpc EXCEPT ![c] = "x_load_config"]
    /\ UNCHANGED <<curModel, lock, req, iref, entryModel, unloadedBy, retModel>>
    /\ UNCHANGED <<qvars, cvars, svars, rvars>>

\* _load_* in a detached thread: .to(device) and enable_model_cpu_offload() succeed
\* and _current_model is set, or one of them raises; the thread ends.
DetachedLoadConfigure(c) ==
    /\ gpc[c] = "x_load_config"
    /\ \/ curModel' = req[c]
       \/ UNCHANGED curModel
    /\ gpc' = [gpc EXCEPT ![c] = "cancelled"]
    /\ CallOver(c)
    /\ UNCHANGED <<pipe, lock, tmp, iref>>
    /\ UNCHANGED <<qvars, cvars, svars, rvars>>

GenCancelNext ==
    \/ GenNext
    \/ \E c \in Callers : Cancel(c)
    \/ \E c \in Callers : DetachedUnload(c)
    \/ \E c \in Callers : DetachedLoadCreate(c)
    \/ \E c \in Callers : DetachedLoadAssign(c)
    \/ \E c \in Callers : DetachedLoadConfigure(c)

\* ------------------------------------------------------------ capabilities
\* The hosts: get_device() reports "cuda" or "cpu"; get_gpu_memory() reports the
\* GPU_MEMORY_GB override or the detected memory, here in units of 1/MemPerGB GB.
Devices == {"cuda", "cpu"}
Hardware == [device : Devices, mem : 0..(MaxMem * MemPerGB)]

\* Mutant of AtLeast: the threshold itself is not enough.
MoreThan(mem, gb) == mem > gb * MemPerGB

\* `mem >= gb` of get_capabilities, on memory in units of 1/MemPerGB GB.
AtLeast(mem, gb) == mem >= gb * MemPerGB

\* round(mem, 1): the memory in tenths of a GB, ties going to the even tenth.
Round1(mem) ==
    LET whole == (10 * mem) \div MemPerGB
        rest  == (10 * mem) % MemPerGB
    IN  IF 2 * rest < MemPerGB THEN whole
        ELSE IF 2 * rest > MemPerGB THEN whole + 1
        ELSE IF whole % 2 = 0 THEN whole ELSE whole + 1

\* A capability dict. Only upscale dicts have a "scale" key; every read of a key that
\* may be missing goes through cap.get(k), which gives None for it: scale 0 stands
\* for None, i.e. for the missing key.
NoScale == 0
Capability(kind, model, scale) == [kind |-> kind, model |-> model, scale |-> scale]

\* `if cond: capabilities.append(...)` for the dicts of one tier.
Tier(cond, caps) == IF cond THEN caps ELSE <<>>

\* Mutant of GetCapabilities: the sdxl tier ends where the flux tier begins
\* (as if the last two `if` were one if/elif choosing the best image model).
GetCapabilitiesBestImage(h) ==
    IF h.device = "cpu"
    THEN [capabilities |-> <<Capability("upscale", "realesrgan-x2plus", 2),
                             Capability("upscale", "realesrgan-x4plus", 4),
                             Capability("image", "sdxl", NoScale),
                             Capability("caption", "blip2", NoScale),
                             Capability("caption", "florence2-base", NoScale)>>,
          device |-> "cpu",
          gpu_memory_gb |-> 0]
    ELSE [capabilities |->
              Tier(AtLeast(h.mem, 4), <<Capability("upscale", "realesrgan-x2plus", 2),
                                        Capability("caption", "blip2", NoScale),
                                        Capability("caption", "florence2-base", NoScale)>>)
              \o Tier(AtLeast(h.mem, 6), <<Capability("upscale", "realesrgan-x4plus", 4),
                                           Capability("caption", "florence2-large", NoScale)>>)
              \o Tier(AtLeast(h.mem, 8) /\ ~AtLeast(h.mem, 12),
                      <<Capability("image", "sdxl", NoScale)>>)
              \o Tier(AtLeast(h.mem, 12), <<Capability("image", "flux", NoScale)>>),
          device |-> "cuda",
          gpu_memory_gb |-> Round1(h.mem)]

\* get_capabilities() on host h: the fixed list on cpu, the accumulated tiers on cuda.
GetCapabilities(h) ==
    IF h.device = "cpu"
    THEN [capabilities |-> <<Capability("upscale", "realesrgan-x2plus", 2),
                             Capability("upscale", "realesrgan-x4plus", 4),
                             Capability("image", "sdxl", NoScale),
                             Capability("caption", "blip2", NoScale),
                             Capability("caption", "florence2-base", NoScale)>>,
          device |-> "cpu",
          gpu_memory_gb |-> 0]
    ELSE [capabilities |->
              Tier(AtLeast(h.mem, 4), <<Capability("upscale", "realesrgan-x2plus", 2),
                                        Capability("caption", "blip2", NoScale),
                                        Capability("caption", "florence2-base", NoScale)>>)
              \o Tier(AtLeast(h.mem, 6), <<Capability("upscale", "realesrgan-x4plus", 4),
                                           Capability("caption", "florence2-large", NoScale)>>)
              \o Tier(AtLeast(h.mem, 8), <<Capability("image", "sdxl", NoScale)>>)
              \o Tier(AtLeast(h.mem, 12), <<Capability("image", "flux", NoScale)>>),
          device |-> "cuda",
          gpu_memory_gb |-> Round1(h.mem)]

\* cap.get(k) for the keyword arguments a query can carry.
CapGet(cap, k) == IF k = "model" THEN cap.model ELSE cap.scale

\* Mutant of Matches: the kind is not compared.
MatchesAnyKind(cap, kind, kw) == \A k \in DOMAIN kw : CapGet(cap, k) = kw[k]

\* The body of the loop of has_capability for one dict: the kind is equal and
\* `all(cap.get(k) == v for k, v in kwargs.items())`.
Matches(cap, kind, kw) ==
    /\ cap.kind = kind
    /\ \A k \in DOMAIN kw : CapGet(cap, k) = kw[k]

\* The loop of has_capability from position i of the list.
RECURSIVE HasCapabilityFrom(_, _, _, _)
HasCapabilityFrom(caps, i, kind, kw) ==
    IF i > Len(caps) THEN FALSE
    ELSE IF Matches(caps[i], kind, kw) THEN TRUE
    ELSE HasCapabilityFrom(caps, i + 1, kind, kw)

\* has_capability(kind, **kw) on host h.
HasCapability(h, kind, kw) ==
    HasCapabilityFrom(GetCapabilities(h).capabilities, 1, kind, kw)

\* A require_* call that returns normally.
Returned == [type |-> "returned"]

\* The ValueError of require_*: its message names the operation, the requested
\* variant, and caps['device'] and caps['gpu_memory_gb'] of a fresh get_capabilities().
RequireError(h, operation, what) ==
    [type |-> "ValueError", operation |-> operation, what |-> what,
     device |-> GetCapabilities(h).device, vram |-> GetCapabilities(h).gpu_memory_gb]

\* Mutant of RequireUpscale: the model stays the default whatever the scale.
RequireUpscaleDefaultModel(h, scale, model) ==
    IF HasCapability(h, "upscale", [model |-> model, scale |-> scale])
    THEN Returned
    ELSE RequireError(h, "Upscale", <<scale, model>>)

\* require_upscale(scale, model): scale 2 selects realesrgan-x2plus.
RequireUpscale(h, scale, model) ==
    LET m == IF scale = 2 THEN "realesrgan-x2plus" ELSE model
    IN  IF HasCapability(h, "upscale", [model |-> m, scale |-> scale])
        THEN Returned
        ELSE RequireError(h, "Upscale", <<scale, m>>)

\* require_generate(model).
RequireGenerate(h, model) ==
    IF HasCapability(h, "image", [model |-> model])
    THEN Returned
    ELSE RequireError(h, "Image generation", <<model>>)

\* require_caption(model).
RequireCaption(h, model) ==
    IF HasCapability(h, "caption", [model |-> model])
    THEN Returned
    ELSE RequireError(h, "Captioning", <<model>>)

\* The requests the calls are checked on.
Kinds == {"upscale", "image", "caption", "video"}
ModelNames == {"realesrgan-x2plus", "realesrgan-x4plus", "sdxl", "flux",
               "blip2", "florence2-base", "florence2-large", "llava"}
ScaleArgs == {2, 3, 4}
Keywords ==
    UNION {{[k \in D |-> g[k]] : g \in [model : ModelNames, scale : ScaleArgs \cup {NoScale}]}
           : D \in SUBSET {"model", "scale"}}

\* The default of the `model` parameter of require_upscale; the routes pass the scale only.
DefaultUpscaleModel == "realesrgan-x4plus"

\* A host on which reading the hardware state fails: `import torch` or the CUDA
\* query inside get_gpu_memory() / get_device() raises.
FailingHosts == [device : {"probe_raises"}, mem : {0}]

\* The exception of a failing probe as it leaves the function that called the probe.
ProbeError == [type |-> "probe_error"]

\* get_gpu_memory() and get_device() are called without try/except by get_capabilities,
\* and get_capabilities without try/except by has_capability and require_*: when the
\* probe raises, the exception is the outcome of the call; otherwise it is `result`.
Detect(h, result) == IF h \in FailingHosts THEN ProbeError ELSE result

\* No call into capabilities.py is waiting for its result to be taken.
NoOutput == [op |-> "none", kind |-> "", kw |-> <<>>, out |-> "none"]

CapInit == capOut = NoOutput

CallGetCapabilities ==
    /\ capOut.op = "none"
    /\ capOut' = [op |-> "get_capabilities", kind |-> "", kw |-> <<>>,
                  out |-> Detect(hw, GetCapabilities(hw))]
    /\ UNCHANGED <<hw, qvars, gvars, svars, rvars>>

CallHasCapability(kind, kw) ==
    /\ capOut.op = "none"
    /\ capOut' = [op |-> "has_capability", kind |-> kind, kw |-> kw,
                  out |-> Detect(hw, HasCapability(hw, kind, kw))]
    /\ UNCHANGED <<hw, qvars, gvars, svars, rvars>>

CallRequireUpscale(scale) ==
    /\ capOut.op = "none"
    /\ capOut' = [op |-> "require_upscale", kind |-> "upscale", kw |-> [scale |-> scale],
                  out |-> Detect(hw, RequireUpscale(hw, scale, DefaultUpscaleModel))]
    /\ UNCHANGED <<hw, qvars, gvars, svars, rvars>>

CallRequireGenerate(model) ==
    /\ capOut.op = "none"
    /\ capOut' = [op |-> "require_generate", kind |-> "image", kw |-> [model |-> model],
                  out |-> Detect(hw, RequireGenerate(hw, model))]
    /\ UNCHANGED <<hw, qvars, gvars, svars, rvars>>

CallRequireCaption(model) ==
    /\ capOut.op = "none"
    /\ capOut' = [op |-> "require_caption", kind |-> "caption", kw |-> [model |-> model],
                  out |-> Detect(hw, RequireCaption(hw, model))]
    /\ UNCHANGED <<hw, qvars, gvars, svars, rvars>>

\* The caller has taken the result; the functions keep no state between calls.
CallOverCap ==
    /\ capOut.op # "none"
    /\ capOut' = NoOutput
    /\ UNCHANGED <<hw, qvars, gvars, svars, rvars>>

CapNext ==
    \/ CallGetCapabilities
    \/ \E kind \in Kinds, kw \in Keywords : CallHasCapability(kind, kw)
    \/ \E scale \in ScaleArgs : CallRequireUpscale(scale)
    \/ \E model \in ModelNames : CallRequireGenerate(model)
    \/ \E model \in ModelNames : CallRequireCaption(model)
    \/ CallOverCap

\* ------------------------------------------------ Upscaler, Captioner, lifespan
\* The dicts of one kind in a capability list, in list order
\* (`[c for c in caps["capabilities"] if c["kind"] == kind]`).
OfKind(caps, kind) == SelectSeq(caps, LAMBDA c : c.kind = kind)

\* `models = [c["model"] for c in caption_caps]`, as the set captioner.load tests with `in`.
CaptionModels(h) ==
    LET cc == OfKind(GetCapabilities(h).capabilities, "caption")
    IN  {cc[i].model : i \in 1..Len(cc)}

\* captioner.load: the Florence variant to load, large before base, or "None".
FlorenceToLoad(models) ==
    IF "florence2-large" \in models THEN "florence2-large"
    ELSE IF "florence2-base" \in models THEN "florence2-base"
    ELSE "None"

\* The preload steps of lifespan on host h, in order: upscaler.load() when there are
\* upscale capabilities, then the steps of captioner.load(models) when there are
\* caption capabilities, then gpu_queue.start() and `yield`.
StartupPlan(h) ==
    LET caps == GetCapabilities(h).capabilities
        models == CaptionModels(h)
    IN  (IF OfKind(caps, "upscale") # <<>> THEN <<"load_upscaler">> ELSE <<>>)
        \o (IF "blip2" \in models THEN <<"load_blip2">> ELSE <<>>)
        \o (IF FlorenceToLoad(models) # "None" THEN <<"load_florence">> ELSE <<>>)
        \o <<"serving">>

\* The step of the plan that follows `step`.
StepAfter(h, step) ==
    LET plan == StartupPlan(h)
        i == CHOOSE j \in 1..Len(plan) : plan[j] = step
    IN  plan[i + 1]

\* The loop `for scale in [2, 4]` of _load_models.
UpscaleScales == <<2, 4>>

NoCall == [op |-> "none", arg |-> "none", st |-> "none", ran |-> FALSE]

SvcInit ==
    /\ phase = "startup"
    /\ upModels = {}
    /\ capLoaded = <<>>
    /\ blip2 = FALSE
    /\ florence = "None"
    /\ call = NoCall
    /\ served = [upscale |-> {}, caption |-> {}]

\* lifespan reads get_capabilities() and goes to its first preload step.
LifespanBegin ==
    /\ phase = "startup"
    /\ phase' = StartupPlan(hw)[1]
    /\ UNCHANGED <<upModels, capLoaded, blip2, florence, call, served>>
    /\ UNCHANGED <<qvars, gvars, cvars, rvars>>

\* One pass of the loop of Upscaler._load_models in the executor thread: the next
\* scale is downloaded, loaded and stored in _models, or the pass raises, which ends
\* load() and the startup with it.
UpscalerLoadScale ==
    /\ phase = "load_upscaler"
    /\ LET todo == SelectSeq(UpscaleScales, LAMBDA s : s \notin upModels)
       IN  \/ /\ upModels' = upModels \cup {Head(todo)}
              /\ phase' = IF Len(todo) = 1 THEN StepAfter(hw, "load_upscaler")
                          ELSE "load_upscaler"
           \/ /\ phase' = "startup_failed"
              /\ UNCHANGED upModels
    /\ UNCHANGED <<capLoaded, blip2, florence, call, served>>
    /\ UNCHANGED <<qvars, gvars, cvars, rvars>>

\* captioner.load: _load_blip2 in the executor, then _loaded_models.append("blip2");
\* or _load_blip2 raises.
CaptionerLoadBlip2 ==
    /\ phase = "load_blip2"
    /\ \/ /\ blip2' = TRUE
          /\ capLoaded' = Append(capLoaded, "blip2")
          /\ phase' = StepAfter(hw, "load_blip2")
       \/ /\ phase' = "startup_failed"
          /\ UNCHANGED <<blip2, capLoaded>>
    /\ UNCHANGED <<upModels, florence, call, served>>
    /\ UNCHANGED <<qvars, gvars, cvars, rvars>>

\* Mutant of CaptionerLoadFlorence: the loaded variant is listed under its own name
\* only.
CaptionerLoadFlorenceOwnName ==
    /\ phase = "load_florence"
    /\ LET variant == FlorenceToLoad(CaptionModels(hw))
       IN  \/ /\ florence' = variant
              /\ capLoaded' = Append(capLoaded, variant)
              /\ phase' = StepAfter(hw, "load_florence")
           \/ /\ phase' = "startup_failed"
              /\ UNCHANGED <<florence, capLoaded>>
    /\ UNCHANGED <<upModels, blip2, call, served>>
    /\ UNCHANGED <<qvars, gvars, cvars, rvars>>

\* captioner.load: _load_florence(variant) in the executor, then the appends: the
\* large variant is listed under both names; or _load_florence raises.
CaptionerLoadFlorence ==
    /\ phase = "load_florence"
    /\ LET variant == FlorenceToLoad(CaptionModels(hw))
       IN  \/ /\ florence' = variant
              /\ capLoaded' = IF variant = "florence2-large"
                              THEN capLoaded \o <<"florence2-large", "florence2-base">>
                              ELSE Append(capLoaded, "florence2-base")
              /\ phase' = StepAfter(hw, "load_florence")
           \/ /\ phase' = "startup_failed"
              /\ UNCHANGED <<florence, capLoaded>>
    /\ UNCHANGED <<upModels, blip2, call, served>>
    /\ UNCHANGED <<qvars, gvars, cvars, rvars>>

\* No upscale()/caption() call is in progress.
CallFree == call.st \notin {"running"}

\* Mutant of UpscaleCheck: the membership test on _models is left out.
UpscaleCheckNoMembership(scale) ==
    IF scale \notin {2, 4} THEN "bad_scale"
    ELSE "running"

\* The checks at the head of Upscaler.upscale: ValueError for a scale other than 2
\* and 4, RuntimeError 'not loaded' for a scale without a model, else the executor.
UpscaleCheck(scale) ==
    IF scale \notin {2, 4} THEN "bad_scale"
    ELSE IF scale \notin upModels THEN "not_loaded"
    ELSE "running"

\* The check at the head of Captioner.caption: RuntimeError 'not loaded' for a model
\* that is not in _loaded_models, else the executor.
CaptionCheck(model) ==
    IF \A i \in 1..Len(capLoaded) : capLoaded[i] # model THEN "not_loaded"
    ELSE "running"

\* upscaler.upscale(image, scale) up to its first suspension.
UpscaleCall(scale) ==
    /\ phase = "serving"
    /\ CallFree
    /\ call' = [op |-> "upscale", arg |-> scale, st |-> UpscaleCheck(scale),
                ran |-> UpscaleCheck(scale) = "running"]
    /\ UNCHANGED <<phase, upModels, capLoaded, blip2, florence, served>>
    /\ UNCHANGED <<qvars, gvars, cvars, rvars>>

\* Mutant of UpscaleSync: running one scale drops the models of the other scales
\* (exclusive residency, as the Generator has it).
UpscaleSyncExclusive ==
    /\ call.op = "upscale"
    /\ call.st = "running"
    /\ upModels' = {call.arg}
    /\ \/ /\ call' = [call EXCEPT !.st = "ok"]
          /\ served' = [served EXCEPT !.upscale = @ \cup {call.arg}]
       \/ /\ call' = [call EXCEPT !.st = "failed"]
          /\ UNCHANGED served
    /\ UNCHANGED <<phase, capLoaded, blip2, florence>>
    /\ UNCHANGED <<qvars, gvars, cvars, rvars>>

\* _upscale_sync in the executor thread: reads self._models[scale] and runs it on the
\* image; returns the PNG bytes or raises (an image that does not decode, the backend).
UpscaleSync ==
    /\ call.op = "upscale"
    /\ call.st = "running"
    /\ \/ /\ call.arg \in upModels
          /\ call' = [call EXCEPT !.st = "ok"]
          /\ served' = [served EXCEPT !.upscale = @ \cup {call.arg}]
       \/ /\ call' = [call EXCEPT !.st = "failed"]
          /\ UNCHANGED served
    /\ UNCHANGED <<phase, upModels, capLoaded, blip2, florence>>
    /\ UNCHANGED <<qvars, gvars, cvars, rvars>>

\* captioner.caption(image, model) up to its first suspension.
CaptionCall(model) ==
    /\ phase = "serving"
    /\ CallFree
    /\ call' = [op |-> "caption", arg |-> model, st |-> CaptionCheck(model),
                ran |-> CaptionCheck(model) = "running"]
    /\ UNCHANGED <<phase, upModels, capLoaded, blip2, florence, served>>
    /\ UNCHANGED <<qvars, gvars, cvars, rvars>>

\* _caption_sync in the executor thread: "blip2" runs the BLIP-2 model, both Florence
\* names run the one Florence model that is loaded, any other name raises ValueError;
\* returns the caption or raises.
CaptionSync ==
    /\ call.op = "caption"
    /\ call.st = "running"
    /\ \/ /\ \/ call.arg = "blip2" /\ blip2
             \/ call.arg \in {"florence2-base", "florence2-large"} /\ florence # "None"
          /\ call' = [call EXCEPT !.st = "ok"]
          /\ served' = [served EXCEPT !.caption = @ \cup {call.arg}]
       \/ /\ call' = [call EXCEPT !.st = "failed"]
          /\ UNCHANGED served
    /\ UNCHANGED <<phase, upModels, capLoaded, blip2, florence>>
    /\ UNCHANGED <<qvars, gvars, cvars, rvars>>

\* The caption models a request can name.
CaptionArgs == {"blip2", "florence2-base", "florence2-large", "llava"}

SvcNext ==
    \/ LifespanBegin
    \/ UpscalerLoadScale
    \/ CaptionerLoadBlip2
    \/ CaptionerLoadFlorence
    \/ \E scale \in ScaleArgs : UpscaleCall(scale)
    \/ UpscaleSync
    \/ \E model \in CaptionArgs : CaptionCall(model)
    \/ CaptionSync

\* A host without a GPU and without the GPU_MEMORY_GB override.
CpuHost == [device |-> "cpu", mem |-> 0]

\* ------------------------------------------------------------ routes
\* The handlers of POST /api/image, /api/upscale and /api/caption. The request of
\* task t is handled once; admit[t] is "none" before it arrives, "rejected_400" when
\* the handler answered 400, "reading" while the handler awaits image.read(),
\* "read_failed" when that raised, "submitted" once gpu_queue.submit was called.
RouteInit == admit = [t \in Tasks |-> "none"]

\* `try: require_*(...) except ValueError: raise HTTPException(400)`.
Passes(out) == out.type = "returned"

\* Mutant of HandleGenerate: the task is submitted before the capability is checked.
HandleGenerateSubmitFirst(t, model) ==
    /\ admit[t] = "none"
    /\ Enqueue(t)
    /\ admit' = [admit EXCEPT ![t] =
                    IF Passes(RequireGenerate(hw, model)) THEN "submitted" ELSE "rejected_400"]
    /\ UNCHANGED <<gvars, cvars, svars>>

\* generate_image: require_generate(request.model), then gpu_queue.submit(do_generate)
\* with no await in between.
HandleGenerate(t, model) ==
    /\ admit[t] = "none"
    /\ IF Passes(RequireGenerate(hw, model))
       THEN /\ Enqueue(t)
            /\ admit' = [admit EXCEPT ![t] = "submitted"]
       ELSE /\ admit' = [admit EXCEPT ![t] = "rejected_400"]
            /\ UNCHANGED qvars
    /\ UNCHANGED <<gvars, cvars, svars>>

\* upscale: 400 for a scale other than 2 and 4, then require_upscale(scale), then
\* `await image.read()`.
HandleUpscale(t, scale) ==
    /\ admit[t] = "none"
    /\ admit' = [admit EXCEPT ![t] =
                    IF scale \in {2, 4} /\ Passes(RequireUpscale(hw, scale, DefaultUpscaleModel))
                    THEN "reading" ELSE "rejected_400"]
    /\ UNCHANGED <<qvars, gvars, cvars, svars>>

\* caption: require_caption(model), then `await image.read()`.
HandleCaption(t, model) ==
    /\ admit[t] = "none"
    /\ admit' = [admit EXCEPT ![t] =
                    IF Passes(RequireCaption(hw, model)) THEN "reading" ELSE "rejected_400"]
    /\ UNCHANGED <<qvars, gvars, cvars, svars>>

\* upscale / caption after `await image.read()`: gpu_queue.submit(...), or the read
\* raised and the handler ends without submitting.
RouteRead(t) ==
    /\ admit[t] = "reading"
    /\ \/ /\ Enqueue(t)
          /\ admit' = [admit EXCEPT ![t] = "submitted"]
       \/ /\ admit' = [admit EXCEPT ![t] = "read_failed"]
          /\ UNCHANGED qvars
    /\ UNCHANGED <<gvars, cvars, svars>>

\* The models the request schemas let through to the handlers.
GenerateArgs == {"sdxl", "flux"}
CaptionRouteArgs == {"blip2", "florence2-base", "florence2-large"}

\* The hosts the handlers are explored on: a cpu host and cuda hosts with 4 and 8 GB;
\* on each of them some requests of every kind pass or are refused.
RouteHosts ==
    {CpuHost} \cup {h \in Hardware : h.device = "cuda" /\ h.mem \in {4 * MemPerGB, 8 * MemPerGB}}

RouteNext ==
    \/ \E t \in Tasks, model \in GenerateArgs : HandleGenerate(t, model)
    \/ \E t \in Tasks, scale \in ScaleArgs : HandleUpscale(t, scale)
    \/ \E t \in Tasks, model \in CaptionRouteArgs : HandleCaption(t, model)
    \/ \E t \in Tasks : RouteRead(t)
    \/ Start
    \/ WorkerGet
    \/ WorkerTaskReturns
    \/ WorkerTaskRaises
    \/ \E t \in Tasks : SubmitResume(t)
    \/ \E t \in Tasks : Abandon(t)
    \/ Stop

\* ------------------------------------------------------------ specifications
\* The queue and the generator read nothing of the host: they are explored on one.
Init == QueueInit /\ GenInit /\ CapInit /\ SvcInit /\ RouteInit /\ hw = CpuHost

\* The capability functions and the startup depend on the host: every host is explored.
HostInit == QueueInit /\ GenInit /\ CapInit /\ SvcInit /\ RouteInit /\ hw \in Hardware

Next == QueueNext

Spec == Init /\ [][Next]_vars

GenSpec == Init /\ [][GenNext]_vars

\* The Generator with calls that can be cancelled while suspended.
GenCancelSpec == Init /\ [][GenCancelNext]_vars

CapSpec == HostInit /\ [][CapNext]_vars

\* The capability functions on every host, the hosts whose probe raises included.
ProbeInit == QueueInit /\ GenInit /\ CapInit /\ SvcInit /\ RouteInit /\ hw \in Hardware \cup FailingHosts

ProbeSpec == ProbeInit /\ [][CapNext]_vars

SvcSpec == HostInit /\ [][SvcNext]_vars

\* The route handlers in front of the queue.
RouteSpecInit == QueueInit /\ GenInit /\ CapInit /\ SvcInit /\ RouteInit /\ hw \in RouteHosts

RouteSpec == RouteSpecInit /\ [][RouteNext]_vars

\* ------------------------------------------------------------ claims: GPUQueue
Running == {t \in Tasks : body[t] = "running"}
Finished == {"returned", "raised"}
IsPrefix(s, t) == Len(s) <= Len(t) /\ \A i \in 1..Len(s) : s[i] = t[i]
LastStarted == startOrder[Len(startOrder)]
InQueue(t) == \E i \in 1..Len(queue) : queue[i] = t

\* The submit call of t is suspended on a pending future and the worker task has ended:
\* only the worker sets futures and start() is called once, so nothing the queue does
\* can resume this call any more.
Stranded(t) ==
    /\ waiter[t].st = "waiting"
    /\ future[t].st = "pending"
    /\ worker \in {"cancelled", "crashed"}

\* C1 (serialization): at most one task body is executing at any instant, that body
\* is the one the worker is awaiting, and whenever the worker starts a body, every
\* body that was executing before the step has returned or raised by the end of it.
C1_Serialization ==
    /\ [](/\ Cardinality(Running) <= 1
          /\ (Running # {} => worker = "run" /\ Running = {current}))
    /\ [][startOrder' # startOrder =>
            \A t \in Running : body'[t] \in Finished]_vars

\* C1 witness: one body executes while two other submitted tasks wait in the queue.
C1_Witness == Cardinality(Running) = 1 /\ Len(queue) >= 2

\* C2 (FIFO): the bodies started so far are exactly the first tasks enqueued, in the
\* order they were enqueued, and every task started before the latest one has finished.
C2_FIFO ==
    /\ IsPrefix(startOrder, enqOrder)
    /\ \A i \in 1..(Len(startOrder) - 1) : body[startOrder[i]] \in Finished

\* C2 witness: three tasks were started, submitted in an order other than their ids.
C2_Witness == Len(startOrder) >= 3 /\ enqOrder[1] # 1 /\ body[startOrder[2]] \in Finished

\* C3 (failure containment), as claimed: when a task body raises, its exception
\* reaches no future but its own and the worker loop does not terminate over it.
C3_FailureContained ==
    \A t \in Tasks : body[t] = "raised" =>
        /\ \A u \in Tasks \ {t} : future[u].val # t /\ waiter[u].val # t
        /\ ~(worker = "crashed" /\ LastStarted = t)

\* C4 (caller abandonment), as claimed: after a submitter has cancelled its wait, its
\* running task is not interrupted and the worker keeps running.
C4_AbandonmentTolerated ==
    \A t \in Tasks : waiter[t].st = "abandoned" =>
        /\ (~stopCalled => body[t] # "cancelled")
        /\ worker # "crashed"

\* C5 (stop resolves pending waiters), as claimed: once stop() has been called, no
\* submit call whose task is still in the queue is left suspended for ever.
C5_StopResolvesPending ==
    \A t \in Tasks : (stopCalled /\ InQueue(t)) => ~Stranded(t)

\* C6 (stop resolves the in-flight waiter), as claimed: the submit call of the task
\* whose body stop() cancelled is not left suspended for ever.
C6_StopResolvesInFlight ==
    \A t \in Tasks : (stopCalled /\ body[t] = "cancelled") => ~Stranded(t)

\* C7 (exactly once): every task body is invoked at most once, every future has had at
\* most one outcome set on it, and a fulfilled future holds exactly that outcome.
C7_ExactlyOnce ==
    \A t \in Tasks :
        /\ invoked[t] <= 1
        /\ Len(delivered[t]) <= 1
        /\ (future[t].st \in {"result", "exception"} => delivered[t] = <<future[t].st>>)
        /\ (body[t] # "idle" => invoked[t] = 1)

\* C7 witness: one task succeeded and another failed, each delivered once.
C7_Witness ==
    \E t, u \in Tasks :
        /\ delivered[t] = <<"result">> /\ waiter[t].st = "returned"
        /\ delivered[u] = <<"exception">> /\ waiter[u].st = "raised"

\* C8 (submit response), as claimed: a submit call resumes only with the outcome of
\* its own task, whose body the worker ran, and while stop() has not been called no
\* submit call is left suspended for ever.
C8_SubmitResponds ==
    \A t \in Tasks :
        /\ (waiter[t].st \in {"returned", "raised"} =>
                waiter[t].val = t /\ body[t] = waiter[t].st /\ invoked[t] = 1)
        /\ (~stopCalled => ~Stranded(t))

\* ------------------------------------------------------------ claims: Generator
LoadStages == {"load_create", "load_assign", "load_config", "load_ok", "load_raised"}

\* The _ensure_model call of c found a model other than the requested one resident.
Swapping(c) == entryModel[c] \notin {"None", req[c]}

C10_SingleResidency == Cardinality(LiveHandles) <= 1

\* The stages in which an executor thread is running _unload_current or a loader.
BackendStages == {"unload", "load_create", "load_assign", "load_config"}
InBackend == {c \in Callers : gpc[c] \in BackendStages}

\* The stages of _ensure_model between taking the lock and releasing it.
LockedStages == BackendStages \cup {"unloaded", "unloaded_err", "load_ok", "load_raised"}

Unloaded == pipe = NoHandle /\ curModel = "None"
Resident == pipe # NoHandle /\ curModel = pipe.v

\* C12 (consistent terminal state), as claimed: whenever no _ensure_model call is
\* between taking and releasing the lock (every call has returned or raised), the
\* Generator is Unloaded or Resident.
C12_ConsistentTerminal ==
    (\A c \in Callers : gpc[c] \notin LockedStages) => (lock = 0 /\ (Unloaded \/ Resident))

\* C13 (run matches residency), as claimed: the pipeline a _generate_sync call runs on
\* was built for the model the call was made for.
C13_RunMatchesResidency ==
    \A c \in Callers : gpc[c] = "infer_run" => iref[c].v = req[c]

\* A call whose _unload_current swallowed a clean-up failure.
TeardownFailed(c) == gpc[c] = "unloaded_err"

Preloaded == <<upModels, capLoaded, blip2, florence>>

\* The elements of a sequence.
Range(seq) == {seq[i] : i \in 1..Len(seq)}

\* C15 (non-swappable families never evict): once the startup is over, no step of an
\* upscale or caption call changes the upscaler's loaded-scale set or the captioner's
\* loaded-model list and models.
C15_NeverEvict ==
    [][phase = "serving" => UNCHANGED Preloaded]_vars

\* C15 witness: both scales and two caption models have each been run to a result, in
\* some alternation, and every preloaded variant is still loaded.
C15_Witness ==
    /\ phase = "serving"
    /\ served.upscale = {2, 4}
    /\ {"blip2", "florence2-base"} \subseteq served.caption
    /\ upModels = {2, 4}
    /\ Range(capLoaded) = {"blip2", "florence2-base"}

\* The call is for a variant that is not preloaded.
NotPreloaded ==
    \/ call.op = "upscale" /\ call.arg \notin upModels
    \/ call.op = "caption" /\ call.arg \notin Range(capLoaded)

\* C16 (preloaded-set membership check): a call for a variant that is not preloaded is
\* refused at once, with the 'not loaded' error (or, for a scale that is neither 2 nor
\* 4, the 'scale must be 2 or 4' error); no backend work is run for it and the step
\* leaves the preloaded set as it was.
C16_MembershipCheck ==
    [][NotPreloaded' =>
          /\ call'.st = IF call'.op = "upscale" /\ call'.arg \notin {2, 4}
                        THEN "bad_scale" ELSE "not_loaded"
          /\ ~call'.ran
          /\ UNCHANGED Preloaded]_vars

\* C16 witness: after other caption calls were served, a call for a caption model that
\* was not preloaded has been refused.
C16_Witness ==
    /\ call.op = "caption" /\ call.arg = "florence2-large" /\ call.st = "not_loaded"
    /\ served.caption # {}

\* ------------------------------------------------------------ claims: capabilities
\* The capability dicts of a get_capabilities() result, as a set.
CapSet(out) == Range(out.capabilities)

\* C17 (capability monotonicity): on cuda, the list get_capabilities returns contains
\* every capability it returns on the same device with less memory.
C17_Monotone ==
    capOut.op = "get_capabilities" /\ hw.device = "cuda" =>
        \A m1 \in 0..hw.mem :
            CapSet(GetCapabilities([device |-> "cuda", mem |-> m1])) \subseteq CapSet(capOut.out)

\* C17 witness: get_capabilities has answered on a cuda host of the highest tier.
C17_Witness ==
    /\ capOut.op = "get_capabilities" /\ hw.device = "cuda"
    /\ hw.mem >= 12 * MemPerGB
    /\ Capability("image", "flux", NoScale) \in CapSet(capOut.out)

\* The reference table: the capabilities of the cpu device, and for cuda each
\* capability with the memory (GB) from which it is granted.
CpuTable ==
    {Capability("upscale", "realesrgan-x2plus", 2), Capability("upscale", "realesrgan-x4plus", 4),
     Capability("image", "sdxl", NoScale),
     Capability("caption", "blip2", NoScale), Capability("caption", "florence2-base", NoScale)}
CudaTable ==
    {<<4, Capability("upscale", "realesrgan-x2plus", 2)>>,
     <<4, Capability("caption", "blip2", NoScale)>>,
     <<4, Capability("caption", "florence2-base", NoScale)>>,
     <<6, Capability("upscale", "realesrgan-x4plus", 4)>>,
     <<6, Capability("caption", "florence2-large", NoScale)>>,
     <<8, Capability("image", "sdxl", NoScale)>>,
     <<12, Capability("image", "flux", NoScale)>>}
Reference(h) ==
    IF h.device = "cpu" THEN CpuTable
    ELSE {row[2] : row \in {r \in CudaTable : h.mem >= r[1] * MemPerGB}}

\* C18 (tier table): what get_capabilities returns is the reference table's entry for
\* the host, each capability once, with the host's device; on cpu the memory plays no
\* part; on cuda with 10 GB it is 2x and 4x upscale, the three caption models and sdxl,
\* without flux.
C18_TierTable ==
    capOut.op = "get_capabilities" =>
        /\ CapSet(capOut.out) = Reference(hw)
        /\ Len(capOut.out.capabilities) = Cardinality(Reference(hw))
        /\ capOut.out.device = hw.device
        /\ (hw.device = "cuda" /\ hw.mem = 10 * MemPerGB =>
               CapSet(capOut.out) = CpuTable \cup {Capability("caption", "florence2-large", NoScale)})

\* C18 witness: get_capabilities has answered on a cuda host with 10 GB.
C18_Witness ==
    /\ capOut.op = "get_capabilities"
    /\ hw = [device |-> "cuda", mem |-> 10 * MemPerGB]
    /\ Len(capOut.out.capabilities) = 6

\* The parameters a capability dict has: the model, and the scale for upscale dicts.
ParamsOf(cap) ==
    IF cap.scale = NoScale THEN [model |-> cap.model]
    ELSE [model |-> cap.model, scale |-> cap.scale]

\* The capability list of the host, as a set.
Detected == CapSet(GetCapabilities(hw))

\* C19 (exact-match support), as claimed: has_capability answers true exactly when a
\* listed dict has the requested kind and exactly the requested parameters.
C19_ExactMatch ==
    capOut.op = "has_capability" =>
        (capOut.out <=>
            \E cap \in Detected : cap.kind = capOut.kind /\ ParamsOf(cap) = capOut.kw)

\* C19 (support), as the code has it: has_capability answers true exactly when a
\* listed dict has the requested kind and agrees with every parameter the query
\* supplies, a parameter the dict does not have agreeing with None only. A query with
\* some of a dict's parameters, or with none, matches.
C19_SuppliedMatch ==
    capOut.op = "has_capability" =>
        (capOut.out <=>
            \E cap \in Detected :
                /\ cap.kind = capOut.kind
                /\ \A k \in DOMAIN capOut.kw :
                      IF k \in DOMAIN ParamsOf(cap)
                      THEN ParamsOf(cap)[k] = capOut.kw[k]
                      ELSE capOut.kw[k] = NoScale)

\* C19 witness: a query that names the scale but not the model has been answered true.
C19_Witness ==
    /\ capOut.op = "has_capability" /\ capOut.kind = "upscale"
    /\ DOMAIN capOut.kw = {"scale"}
    /\ capOut.out = TRUE

\* The capability a require_* call asks for is in the detected list.
Listed ==
    \E cap \in Detected :
        /\ cap.kind = capOut.kind
        /\ \A k \in DOMAIN capOut.kw : k \in DOMAIN ParamsOf(cap) /\ ParamsOf(cap)[k] = capOut.kw[k]

\* The operation each require_* names in its message.
OperationOf(op) ==
    IF op = "require_upscale" THEN "Upscale"
    ELSE IF op = "require_generate" THEN "Image generation"
    ELSE "Captioning"

\* C20 (require agrees with support): a require_* call returns normally exactly when
\* the capability for its request is in the detected list; otherwise it raises a
\* ValueError that names the operation, the device and the memory get_capabilities
\* reports.
C20_RequireAgrees ==
    capOut.op \in {"require_upscale", "require_generate", "require_caption"} =>
        /\ capOut.out.type = "returned" <=> Listed
        /\ capOut.out.type # "returned" =>
              /\ capOut.out.type = "ValueError"
              /\ capOut.out.operation = OperationOf(capOut.op)
              /\ capOut.out.device = hw.device
              /\ capOut.out.vram = IF hw.device = "cpu" THEN 0 ELSE Round1(hw.mem)

\* C20 witness: require_upscale(2) has returned normally on a cuda host on which
\* require_upscale(4) would raise.
C20_Witness ==
    /\ capOut.op = "require_upscale" /\ capOut.kw.scale = 2
    /\ capOut.out.type = "returned"
    /\ hw.device = "cuda" /\ ~AtLeast(hw.mem, 6)

\* C21 (detection failure degrades), as claimed: on a host whose hardware probe raises,
\* get_capabilities does not raise: it returns the cpu capability list with device cpu.
C21_DetectionDegrades ==
    capOut.op = "get_capabilities" /\ hw \in FailingHosts =>
        /\ "capabilities" \in DOMAIN capOut.out
        /\ capOut.out.device = "cpu"
        /\ CapSet(capOut.out) = CpuTable

\* The tasks whose body the worker has seen end: it returned, raised, or was cancelled
\* with the worker by stop().
Ended == {t \in Tasks : body[t] \in {"returned", "raised", "cancelled"}}

\* C22 (cleanup between tasks): the clean-up pass has run after every task that ended,
\* successful or not, by the time the worker waits for or runs another task; and a
\* clean-up that fails does not stop the worker: the worker goes on to wait for or run
\* the next task unless the ended task's future refused its outcome.
C22_CleanupBetweenTasks ==
    /\ [](cleaned = Ended)
    /\ [][lastCleanup' = "swallowed" /\ worker = "run" /\ ~stopCalled' /\ cleaned' # cleaned
             /\ FutureAccepts(future[current])
          => worker' \in {"get", "run"}]_vars

\* C22 witness: a task raised, its clean-up failed and was swallowed, and the worker is
\* running the next task.
C22_Witness ==
    /\ worker = "run"
    /\ lastCleanup = "swallowed"
    /\ \E t \in cleaned : body[t] = "raised"

\* The stages from which a generate() call enters _ensure_model's locked section.
EntryStages == {"idle", "done", "failed", "wait_lock"}

\* C23 (resident model is destroyed only for a different variant): a call whose model is
\* the current one when it takes the lock returns from _ensure_model in that same step,
\* with the pipeline and the current model untouched; such a call is never in an unload
\* or load stage, so consecutive calls for one model load it once.
C23_ResidentKept ==
    /\ [](\A c \in Callers :
            req[c] \in ModelType /\ entryModel[c] = req[c] =>
                gpc[c] = "infer" /\ retModel[c] = req[c])
    /\ [][\A c \in Callers :
            /\ gpc[c] \in EntryStages /\ gpc'[c] \notin EntryStages
            /\ lock = 0 /\ curModel = req'[c]
            => gpc'[c] = "infer" /\ UNCHANGED <<curModel, pipe, lock>>]_vars

\* C23 witness: a second call for the model that an earlier call loaded is at its
\* inference, and that pipeline (the first built) is still the one held.
C23_Witness ==
    \E c \in Callers :
        /\ gpc[c] = "infer" /\ req[c] \in ModelType /\ entryModel[c] = req[c]
        /\ pipe = [v |-> req[c], id |-> 1]

\* C27 (rejected variant does not evict), as claimed: no step of a call for a variant
\* outside the supported set changes the current model or the pipeline held.
C27_RejectedKeepsResident ==
    [][\A c \in Callers :
          req[c] \notin ModelType \cup {"None"} /\ gpc'[c] # gpc[c]
          => UNCHANGED <<curModel, pipe>>]_vars

\* C24 (residency state is mutated only under the lock), as claimed: every step that
\* changes the current model or the pipeline held is a step of the unload or the load
\* of the call that holds the lock.
C24_MutatedUnderLock ==
    [][curModel' # curModel \/ pipe' # pipe =>
          lock # 0 /\ lock' = lock /\ gpc[lock] \in BackendStages]_vars

\* C28 (lock covers the whole backend operation), as claimed: while the lock is free
\* no unload or load routine is executing, cancelled calls included.
C28_LockCoversBackend ==
    lock = 0 => \A c \in Callers : gpc[c] \notin BackendStages \cup DetachedStages

\* C25 (admission precedes queueing): a request whose capability check failed was
\* answered 400 and its task is never enqueued, given a future or run; every task
\* that was enqueued belongs to a request that passed its check.
C25_AdmissionFirst ==
    \A t \in Tasks :
        /\ admit[t] = "rejected_400" =>
               /\ ~InQueue(t) /\ t \notin Range(enqOrder)
               /\ future[t] = NoFuture /\ body[t] = "idle" /\ invoked[t] = 0
        /\ t \in Range(enqOrder) => admit[t] = "submitted"

\* C25 witness: one request was refused, another passed its check and its task has run.
C25_Witness ==
    \E t, u \in Tasks :
        /\ admit[t] = "rejected_400"
        /\ admit[u] = "submitted" /\ body[u] = "returned"

\* C26 (admitted implies preloaded): once lifespan has reached its `yield`, on every
\* host, every upscale scale that passes require_upscale is in the upscaler's loaded
\* set and every caption model that passes require_caption is in the captioner's
\* loaded list; the 'not loaded' error is only ever raised for a request that
\* require_* refuses.
C26_AdmittedPreloaded ==
    /\ phase = "serving" =>
           /\ \A scale \in ScaleArgs :
                  Passes(RequireUpscale(hw, scale, DefaultUpscaleModel)) => scale \in upModels
           /\ \A model \in CaptionArgs :
                  Passes(RequireCaption(hw, model)) => model \in Range(capLoaded)
    /\ call.st = "not_loaded" =>
           IF call.op = "upscale"
           THEN ~Passes(RequireUpscale(hw, call.arg, DefaultUpscaleModel))
           ELSE ~Passes(RequireCaption(hw, call.arg))

\* C26 witness: on a cuda host that loaded the large Florence variant, a caption
\* call for the admitted name florence2-base has run to a result.
C26_Witness ==
    /\ phase = "serving"
    /\ hw.device = "cuda" /\ florence = "florence2-large"
    /\ Passes(RequireCaption(hw, "florence2-base"))
    /\ call.op = "caption" /\ call.arg = "florence2-base" /\ call.st = "ok"

====
